---- MODULE Spec2Model ----
(***************************************************************************)
(* WaveMail triage pipeline (backend/agents/tools.py, pipelines.py).       *)
(*                                                                         *)
(* The mail store and the text-completion oracle are the environment: an   *)
(* oracle call either raises or returns one of a small set of response     *)
(* texts, a mail-store call either raises or succeeds.  Every action is    *)
(* the code that runs from one external call up to the next one.  Text is  *)
(* modelled as TLA+ strings and the string functions of the code (lower,   *)
(* strip, substring test, re.sub, split, join) are computed character by   *)
(* character.                                                              *)
(***************************************************************************)
EXTENDS Integers, Sequences, FiniteSets, TLC

(***************************************************************************)
(* Bounds                                                                  *)
(***************************************************************************)
\* number of messages held by the mail store
MaxMsgs == 2
\* number of sort passes in one behaviour
MaxPasses == 1

(***************************************************************************)
(* Python string functions                                                 *)
(***************************************************************************)
UpperChars == "ABCDEFGHIJKLMNOPQRSTUVWXYZ"
LowerChars == "abcdefghijklmnopqrstuvwxyz"
DigitChars == "0123456789_"

CharAt(s, i) == SubSeq(s, i, i)

\* position of the one-character string c in s, 0 when absent
IndexOf(c, s) ==
    IF \E i \in 1..Len(s) : CharAt(s, i) = c
    THEN CHOOSE i \in 1..Len(s) : CharAt(s, i) = c
    ELSE 0

\* str.lower() on one character
LowerChar(c) ==
    IF IndexOf(c, UpperChars) > 0
    THEN CharAt(LowerChars, IndexOf(c, UpperChars))
    ELSE c

RECURSIVE Lower(_)
\* str.lower()
Lower(s) ==
    IF Len(s) = 0 THEN ""
    ELSE IF Len(s) = 1 THEN LowerChar(s)
    ELSE LET h == Len(s) \div 2
         IN  Lower(SubSeq(s, 1, h)) \o Lower(SubSeq(s, h + 1, Len(s)))

\* the characters str.strip() removes and the regex class \s matches
IsSpace(c) == c \in {" ", "\t", "\n", "\r", "\f"}

\* the regex class \w
IsWord(c) ==
    \/ IndexOf(c, UpperChars) > 0
    \/ IndexOf(c, LowerChars) > 0
    \/ IndexOf(c, DigitChars) > 0

RECURSIVE LStrip(_)
LStrip(s) ==
    IF Len(s) = 0 THEN ""
    ELSE IF IsSpace(CharAt(s, 1)) THEN LStrip(SubSeq(s, 2, Len(s)))
    ELSE s

RECURSIVE RStrip(_)
RStrip(s) ==
    IF Len(s) = 0 THEN ""
    ELSE IF IsSpace(CharAt(s, Len(s))) THEN RStrip(SubSeq(s, 1, Len(s) - 1))
    ELSE s

\* str.strip()
Strip(s) == RStrip(LStrip(s))

\* the Python test  k in s  on strings
Contains(s, k) ==
    \E i \in 1..(Len(s) - Len(k) + 1) : SubSeq(s, i, i + Len(k) - 1) = k

RECURSIVE RemovePunctDeleting(_)
\* variant: punctuation is deleted instead of replaced by a space
RemovePunctDeleting(s) ==
    IF Len(s) = 0 THEN ""
    ELSE (IF IsWord(CharAt(s, 1)) \/ IsSpace(CharAt(s, 1))
          THEN CharAt(s, 1) ELSE "")
         \o RemovePunctDeleting(SubSeq(s, 2, Len(s)))

RECURSIVE RemovePunct(_)
\* re.sub(r"[^\w\s]", " ", text)
RemovePunct(s) ==
    IF Len(s) = 0 THEN ""
    ELSE (IF IsWord(CharAt(s, 1)) \/ IsSpace(CharAt(s, 1))
          THEN CharAt(s, 1) ELSE " ")
         \o RemovePunct(SubSeq(s, 2, Len(s)))

RECURSIVE Split(_)
\* str.split("\n"): always at least one element
Split(s) ==
    IF ~Contains(s, "\n") THEN <<s>>
    ELSE LET p == IndexOf("\n", s)
         IN  <<SubSeq(s, 1, p - 1)>> \o Split(SubSeq(s, p + 1, Len(s)))

RECURSIVE Join(_)
\* " ".join(lines)
Join(lines) ==
    IF Len(lines) = 0 THEN ""
    ELSE IF Len(lines) = 1 THEN lines[1]
    ELSE lines[1] \o " " \o Join(Tail(lines))

(***************************************************************************)
(* The environment: mail store contents and oracle responses               *)
(***************************************************************************)
Ids == 1..MaxMsgs

\* body of a part: the base64url data, given by the bytes it decodes to
\* (written as the text they spell) and whether these bytes are valid UTF-8
Data(text, utf8) == [data |-> [text |-> text, utf8 |-> utf8]]

\* payload of a single-part text/plain message
PlainPayload(text) == [mimeType |-> "text/plain", body |-> Data(text, TRUE)]

\* messages the mail store can hold: headers and payload
StoreMsgs ==
    { [headers |-> [Subject |-> "URGENT: deadline today", From |-> "x@y.com",
                    Date |-> "Mon, 1 Sep"],
       payload |-> PlainPayload("please respond")],
      [headers |-> [Subject |-> "Weekly Newsletter", From |-> "newsletter@z.com",
                    Date |-> "Tue, 2 Sep"],
       payload |-> PlainPayload("click to unsubscribe")],
      [headers |-> [From |-> "friend@mail.com", Date |-> "Thu, 4 Sep"],
       payload |-> PlainPayload("see photos from the trip")] }

\* messages of a mailbox that is sorted: one the rule stage finds important
\* and one it does not (sort_emails does not look at anything else)
SortMsgs ==
    { m \in StoreMsgs :
        "Subject" \in DOMAIN m.headers /\ "Date" \in DOMAIN m.headers }

\* messages behind the email dicts the agent can hand to a tool
ToolMsgs ==
    StoreMsgs \cup
    { [headers |-> [Subject |-> "Lunch?", From |-> "Boss@corp.com",
                    Date |-> "Wed, 3 Sep"],
       payload |-> PlainPayload("are you free at noon")],
      [headers |-> [Subject |-> "Flash SALE!", From |-> "shop@mall.com",
                    Date |-> "Fri, 5 Sep"],
       payload |-> PlainPayload("payment due")],
      [headers |-> [Subject |-> "Action", From |-> "hr@corp.com",
                    Date |-> "Sat, 6 Sep"],
       payload |-> PlainPayload("required by friday")],
      [headers |-> [Subject |-> "Hi", From |-> "TeamLead@corp.com",
                    Date |-> "Sun, 7 Sep"],
       payload |-> PlainPayload("Un-subscribe here")] }

RECURSIVE Rep(_, _)
\* the text s repeated n times
Rep(s, n) ==
    IF n = 0 THEN ""
    ELSE LET h == Rep(s, n \div 2)
         IN  h \o h \o (IF n % 2 = 1 THEN s ELSE "")

\* a part of the given type carrying data
Part(type, text, utf8) == [mimeType |-> type, body |-> Data(text, utf8)]

\* a container part
Multipart(type, parts) == [mimeType |-> type, body |-> [size |-> 0], parts |-> parts]

\* payloads a fetched message can have
FetchPayloads ==
    { PlainPayload("see you at noon"),
      \* multipart/alternative with both renderings
      Multipart("multipart/alternative",
                << Part("text/html", "<p>html first</p>", TRUE),
                   Part("text/plain", "plain second", TRUE) >>),
      \* a single-part text/html message
      Part("text/html", "<h1>Offer</h1>\n<p>Buy <b>now</b></p>", TRUE),
      \* a text/plain part after the multipart that holds the first one
      Multipart("multipart/mixed",
                << Multipart("multipart/alternative",
                             << Part("text/plain", "inner plain", TRUE),
                                Part("text/html", "<b>inner html</b>", TRUE) >>),
                   Part("text/plain", "later sibling", TRUE) >>),
      \* two text/html leaves and no text/plain leaf
      Multipart("multipart/mixed",
                << Part("text/html", "<p>first rendering</p>", TRUE),
                   Multipart("multipart/related",
                     << Part("text/html",
                          "<html><style>p {color: red}</style><body><p> Hello </p>"
                          \o "<img src='a.png'><script>if (a<b) x()</script>"
                          \o "<div>World</div></body></html>", TRUE),
                        [mimeType |-> "image/png",
                         body |-> [attachmentId |-> "a1"]] >>) >>),
      \* bytes that are not UTF-8
      Part("text/plain", "caf\\xe9", FALSE),
      \* a text part without a body entry
      Multipart("multipart/mixed", << [mimeType |-> "text/plain"] >>),
      \* nothing readable
      Multipart("multipart/mixed",
                << [mimeType |-> "application/pdf",
                    body |-> [attachmentId |-> "a2"]] >>),
      \* bodies around the two lengths of the truncation
      PlainPayload(Rep("a", 500)),
      PlainPayload(Rep("b", 501)),
      PlainPayload(Rep("c", 1000)),
      PlainPayload(Rep("d", 1001) \o "tail") }

\* messages a fetch can meet
FetchMsgs ==
    { [headers |-> [Subject |-> "Hello", From |-> "a@b.com", Date |-> "Mon, 1 Sep"],
       payload |-> p] : p \in FetchPayloads }

\* label sets a message can start with
InitLabels == { {"INBOX", "UNREAD", "IMPORTANT"}, {"INBOX"} }

\* texts the oracle can answer to the query-extraction prompt for user_query
QueryResponses(user_query) == { user_query \o "\n", "in:inbox", "None" }

\* texts the oracle can answer to the importance prompt
ImportanceResponses == { "yes", " YES\n", "No", "Maybe", "", "yes." }

\* texts the oracle can answer to the category prompt (the first and the
\* last of the four category labels stand for the four, which the code
\* handles by one membership test)
CategoryResponses ==
    { "spam", "Spam", " trash\n", "CATEGORY_PROMOTIONS", "CATEGORY_FORUMS",
      "inbox", "junk" }

\* texts the oracle can answer to the summary prompt
SummaryResponses == { " Deadline reminder\n", "" }

\* texts the oracle can answer to the task-extraction prompt
ExtractResponses ==
    { "", " None\n", "No tasks",
      "Deadline today\n- submit report by Friday\n\n\t reply to sender" }

(***************************************************************************)
(* Pure functions of tools.py                                              *)
(***************************************************************************)
IMPORTANT_KEYWORDS ==
    { "urgent", "asap", "deadline", "immediately", "launch", "quarterly",
      "meeting", "project", "update", "report", "invoice", "payment",
      "schedule", "appointment", "reminder", "action required", "follow up",
      "important", "priority", "quarter" }

\* next((h["value"] for h in headers if h["name"] == name), default)
HeaderValue(headers, name, default) ==
    IF name \in DOMAIN headers THEN headers[name] ELSE default

\* part.get('mimeType')
mimeType(part) == IF "mimeType" \in DOMAIN part THEN part.mimeType ELSE "None"

RECURSIVE TagName(_)
\* name of the tag whose text between "<" and ">" is s, lower-cased
TagName(s) ==
    IF Len(s) = 0 \/ ~IsWord(CharAt(s, 1)) THEN ""
    ELSE LowerChar(CharAt(s, 1)) \o TagName(SubSeq(s, 2, Len(s)))

RECURSIVE HtmlStrings(_, _)
\* BeautifulSoup(text_html, "html.parser") after decompose() of every img,
\* script and style element: the text nodes left, in document order.
\* skip names the script or style element being skipped, "" outside one;
\* inside one only its end tag is markup.
HtmlStrings(s, skip) ==
    IF Len(s) = 0 THEN << >>
    ELSE IF skip # ""
    THEN IF /\ SubSeq(s, 1, 2) = "</"
            /\ TagName(SubSeq(s, 3, Len(s))) = skip
            /\ Contains(s, ">")
         THEN HtmlStrings(SubSeq(s, IndexOf(">", s) + 1, Len(s)), "")
         ELSE HtmlStrings(SubSeq(s, 2, Len(s)), skip)
    ELSE IF CharAt(s, 1) = "<" /\ Contains(s, ">")
    THEN LET p    == IndexOf(">", s)
             tag  == SubSeq(s, 2, p - 1)
             rest == SubSeq(s, p + 1, Len(s))
         IN  IF TagName(tag) \in {"script", "style"}
             THEN HtmlStrings(rest, TagName(tag))
             ELSE HtmlStrings(rest, "")
    ELSE LET q    == IF Contains(SubSeq(s, 2, Len(s)), "<")
                     THEN IndexOf("<", SubSeq(s, 2, Len(s))) ELSE Len(s)
         IN  <<SubSeq(s, 1, q)>> \o HtmlStrings(SubSeq(s, q + 1, Len(s)), "")

RECURSIVE JoinLines(_)
\* soup.get_text(separator='\n', strip=True) over the text nodes: each one
\* stripped, the empty ones dropped, the rest joined by "\n"
JoinLines(strings) ==
    IF Len(strings) = 0 THEN ""
    ELSE LET h == Strip(Head(strings))
             t == JoinLines(Tail(strings))
         IN  IF h = "" THEN t
             ELSE IF t = "" THEN h
             ELSE h \o "\n" \o t

\* variant: the markup is returned as it is
html_text_raw(text_html) == text_html

html_text(text_html) == JoinLines(HtmlStrings(text_html, ""))

\* the nonlocal text_plain and text_html (None is ""), and whether an
\* exception has been raised
NoText == [text_plain |-> "", text_html |-> "", raised |-> FALSE]

RECURSIVE find_parts(_, _)
\* find_parts(parts), st being the nonlocals when it is called.  The
\* return after text/plain ends this call only: the loop of the caller
\* goes on with the next part.  part['body'] raises KeyError when the part
\* has no body, decode('utf-8') raises UnicodeDecodeError.
find_parts(parts, st) ==
    IF st.raised \/ Len(parts) = 0 THEN st
    ELSE LET part   == Head(parts)
             isText == mimeType(part) \in {"text/plain", "text/html"}
         IN  IF isText /\ "body" \notin DOMAIN part
             THEN [st EXCEPT !.raised = TRUE]
             ELSE IF isText /\ "data" \in DOMAIN part.body /\ ~part.body.data.utf8
             THEN [st EXCEPT !.raised = TRUE]
             ELSE IF mimeType(part) = "text/plain" /\ "data" \in DOMAIN part.body
             THEN [st EXCEPT !.text_plain = part.body.data.text]
             ELSE LET st1 == IF mimeType(part) = "text/html"
                                /\ "data" \in DOMAIN part.body
                             THEN [st EXCEPT !.text_html = part.body.data.text]
                             ELSE st
                      st2 == IF "parts" \in DOMAIN part
                             THEN find_parts(part.parts, st1)
                             ELSE st1
                  IN  find_parts(Tail(parts), st2)

\* the nonlocals after "Start the search"
body_search(payload) ==
    IF "parts" \in DOMAIN payload THEN find_parts(payload.parts, NoText)
    ELSE IF "body" \notin DOMAIN payload THEN [NoText EXCEPT !.raised = TRUE]
    ELSE IF "data" \notin DOMAIN payload.body THEN NoText
    ELSE IF mimeType(payload) \notin {"text/plain", "text/html"} THEN NoText
    ELSE IF ~payload.body.data.utf8 THEN [NoText EXCEPT !.raised = TRUE]
    ELSE IF mimeType(payload) = "text/plain"
    THEN [NoText EXCEPT !.text_plain = payload.body.data.text]
    ELSE [NoText EXCEPT !.text_html = payload.body.data.text]

\* get_body_from_google_api_payload(payload): the text returned, or raised
get_body_from_google_api_payload(payload) ==
    LET st == body_search(payload)
    IN  IF st.raised THEN [raised |-> TRUE, text |-> ""]
        ELSE IF st.text_plain # "" THEN [raised |-> FALSE, text |-> st.text_plain]
        ELSE IF st.text_html # ""
        THEN [raised |-> FALSE, text |-> html_text(st.text_html)]
        ELSE [raised |-> FALSE, text |-> "No readable body found."]

\* variant: the cut is made at the length that is tested
Truncate_cut_at_500(body) ==
    IF Len(body) > 500 THEN SubSeq(body, 1, 500) \o "..." ELSE body

\* if len(body) > 500: body = body[:1000] + "..."
Truncate(body) ==
    IF Len(body) > 500
    THEN SubSeq(body, 1, IF Len(body) < 1000 THEN Len(body) ELSE 1000) \o "..."
    ELSE body

\* the dict fetch_email_by_query appends for message id holding msg
EmailRecord(id, msg) ==
    [ id      |-> id,
      subject |-> HeaderValue(msg.headers, "Subject", "(No Subject)"),
      from    |-> HeaderValue(msg.headers, "From", "(Unknown Sender)"),
      date    |-> HeaderValue(msg.headers, "Date", "(Unknown Date)"),
      snippet |-> Truncate(get_body_from_google_api_payload(msg.payload).text) ]

\* variant: the sender rule is missing
rule_based_check_no_vip(subject, snippet, sender) ==
    LET text == Lower(subject) \o " " \o Lower(snippet)
    IN  \E kw \in IMPORTANT_KEYWORDS : Contains(text, kw)

rule_based_check(subject, snippet, sender) ==
    LET text == Lower(subject) \o " " \o Lower(snippet)
    IN  \/ \E kw \in IMPORTANT_KEYWORDS : Contains(text, kw)
        \/ Contains(Lower(sender), "boss@")
        \/ Contains(Lower(sender), "teamlead@")

\* variant: "yes" is looked for inside the response instead of compared
llm_fallback_check_contains(content) == Contains(Lower(Strip(content)), "yes")

\* the decision llm_fallback_check takes on the oracle's response text
llm_fallback_check(content) == Lower(Strip(content)) = "yes"

\* the value classify_email returns, important being the outcome of its
\* two stages
classify_return(email, important) ==
    IF important THEN "important" ELSE "not important - " \o email.subject

\* variant: the test is inverted
verdict_is_important_negated(v) == v # "important"

\* the callers' test  classify_email(email) == "important"
verdict_is_important(v) == v = "important"

spam_keywords == { "unsubscribe", "newsletter", "promo", "sale", "advertisement" }

is_spam(email) ==
    LET subject == Lower(email.subject)
        body    == Lower(email.snippet)
        text    == RemovePunct(Lower(subject \o " " \o body))
    IN  \E keyword \in spam_keywords : Contains(text, keyword)

\* variant: the sentinel test is made without lower()
todo_from_response_no_lower(content) ==
    IF Strip(content) \in
          { "", "none", "no tasks", "no task", "no action", "empty string" }
    THEN << >>
    ELSE Split(Strip(content))

\* the list generate_todo returns for the extraction response text
todo_from_response(content) ==
    IF Lower(Strip(content)) \in
          { "", "none", "no tasks", "no task", "no action", "empty string" }
    THEN << >>
    ELSE Split(Strip(content))

(***************************************************************************)
(* State                                                                   *)
(***************************************************************************)
VARIABLES
    msgs,      \* mail store: message id -> headers and payload
    labels,    \* mail store: message id -> set of label ids
    op,        \* operation in progress, "idle" when none
    pc,        \* external call the operation is about to make
    query,     \* fetch_email_by_query: search_query_extracted, "" outside it
    found,     \* fetch_email_by_query: messages (ids) the search returned
    batch,     \* emails: the list of email dicts being processed
    idx,       \* position in batch of the email being processed
    verdict,   \* value classify_email returned for the current email
    category,  \* sort_emails: category of the current email
    ocalls,    \* oracle calls made so far for the current email, in order
    muts,      \* mail-store mutation requests issued per message in this pass
    todo,      \* value generate_todo returned for the current email
    out,       \* todolist / notifications built so far
    ret,       \* value the operation returned
    ev,        \* the external call the last step made
    prevTodo,  \* the preceding completed generate_todo tool call
    passes,    \* sort passes started
    hist       \* get_todolist / get_notifications: what generate_todo /
               \* classify_email returned for each email processed so far

vars == << msgs, labels, op, pc, query, found, batch, idx, verdict, category,
           ocalls, muts, todo, out, ret, ev, prevTodo, passes, hist >>

NoEv == [kind |-> "none", id |-> 0, text |-> "", ok |-> TRUE]
Call(kind, id, text, ok) == [kind |-> kind, id |-> id, text |-> text, ok |-> ok]
NoEmail == [id |-> 0, subject |-> "", from |-> "", date |-> "", snippet |-> ""]
NoPrev == [email |-> NoEmail, todo |-> << >>, ncalls |-> 0]

\* the email dicts the agent can hand to classify_email and generate_todo
ToolEmails == { EmailRecord(1, m) : m \in ToolMsgs }

\* variant: the loop body always works on the first email
cur_first == batch[1]

\* the email dict of the current loop iteration
cur == batch[idx]

\* user_query each pipeline operation hands to fetch_email_by_query
UserQuery(o) ==
    IF o = "sort" THEN "is:unread" ELSE "is:important newer_than:2d"

\* messages of the store outside Spam and Trash
Visible(i) == labels[i] \cap {"SPAM", "TRASH"} = {}

\* ids in increasing order
RECURSIVE SeqOfSet(_)
SeqOfSet(S) ==
    IF S = {} THEN << >>
    ELSE LET m == CHOOSE x \in S : \A y \in S : x <= y
         IN  <<m>> \o SeqOfSet(S \ {m})

\* service.users().messages().list(userId='me', q=q): matching message ids
Search(q) ==
    SeqOfSet(
      IF q = "is:unread" THEN { i \in Ids : Visible(i) /\ "UNREAD" \in labels[i] }
      ELSE IF q = "is:important newer_than:2d"
           THEN { i \in Ids : Visible(i) /\ "IMPORTANT" \in labels[i] }
      ELSE IF q = "in:inbox"
           THEN { i \in Ids : Visible(i) /\ "INBOX" \in labels[i] }
      ELSE { i \in Ids : /\ Visible(i)
                         /\ Contains(Lower(EmailRecord(i, msgs[i]).subject \o " "
                                           \o EmailRecord(i, msgs[i]).snippet),
                                  Lower(q)) })

\* no operation in progress
InitIdle ==
    /\ op = "idle"
    /\ pc = "idle"
    /\ query = ""
    /\ found = << >>
    /\ batch = << >>
    /\ idx = 0
    /\ verdict = ""
    /\ category = ""
    /\ ocalls = << >>
    /\ muts = [i \in Ids |-> 0]
    /\ todo = << >>
    /\ out = << >>
    /\ ret = << >>
    /\ ev = NoEv
    /\ prevTodo = NoPrev
    /\ passes = 0
    /\ hist = << >>

Init ==
    /\ msgs \in [Ids -> StoreMsgs]
    /\ labels \in [Ids -> InitLabels]
    /\ InitIdle

\* local variables of an operation that is starting
ResetLocals ==
    /\ query' = ""
    /\ found' = << >>
    /\ verdict' = ""
    /\ category' = ""
    /\ ocalls' = << >>
    /\ muts' = [i \in Ids |-> 0]
    /\ todo' = << >>
    /\ out' = << >>
    /\ ret' = << >>
    /\ ev' = NoEv
    /\ hist' = << >>

(***************************************************************************)
(* Pipeline entry points: sort(), get_todolist(), get_notifications()      *)
(***************************************************************************)
StartPipeline(o) ==
    /\ op = "idle"
    /\ o = "sort" => passes < MaxPasses
    /\ passes' = IF o = "sort" THEN passes + 1 ELSE passes
    /\ op' = o
    /\ pc' = "fetch_llm"
    /\ batch' = << >>
    /\ idx' = 0
    /\ prevTodo' = NoPrev
    /\ ResetLocals
    /\ UNCHANGED << msgs, labels >>

StartSort == StartPipeline("sort")
StartTodolist == StartPipeline("todolist")
StartNotifications == StartPipeline("notifications")

\* the agent calls the fetch_email_by_query tool
StartFetch == StartPipeline("fetch")

(***************************************************************************)
(* fetch_email_by_query                                                    *)
(***************************************************************************)
\* llm.invoke(prompt) for the search query, then the "None" test
FetchQuery ==
    /\ pc = "fetch_llm"
    /\ \/ /\ ev' = Call("query", 0, "", FALSE)
          /\ pc' = "raised"
          /\ UNCHANGED << query, batch >>
       \/ \E r \in QueryResponses(UserQuery(op)) :
            /\ ev' = Call("query", 0, r, TRUE)
            /\ IF Lower(Strip(r)) = "None"
               THEN pc' = "loop" /\ batch' = << >> /\ query' = ""
               ELSE pc' = "search" /\ UNCHANGED batch /\ query' = Strip(r)
    /\ UNCHANGED << msgs, labels, op, found, idx, verdict, category, ocalls,
                    muts, todo, out, ret, prevTodo, passes, hist >>

\* variant: a failed search is taken for a search without results
FetchSearch_absorbs_failure ==
    /\ pc = "search"
    /\ \/ /\ ev' = Call("search", 0, query, FALSE)
          /\ pc' = "loop"
          /\ batch' = << >> /\ query' = "" /\ found' = << >>
       \/ /\ ev' = Call("search", 0, query, TRUE)
          /\ batch' = << >>
          /\ IF Search(query) = << >>
             THEN pc' = "loop" /\ query' = "" /\ found' = << >>
             ELSE pc' = "get" /\ UNCHANGED query /\ found' = Search(query)
    /\ UNCHANGED << msgs, labels, op, idx, verdict, category, ocalls,
                    muts, todo, out, ret, prevTodo, passes, hist >>

\* messages().list(q=search_query_extracted).execute()
FetchSearch ==
    /\ pc = "search"
    /\ \/ /\ ev' = Call("search", 0, query, FALSE)
          /\ pc' = "raised"
          /\ UNCHANGED << query, found, batch >>
       \/ /\ ev' = Call("search", 0, query, TRUE)
          /\ batch' = << >>
          /\ IF Search(query) = << >>
             THEN pc' = "loop" /\ query' = "" /\ found' = << >>
             ELSE pc' = "get" /\ UNCHANGED query /\ found' = Search(query)
    /\ UNCHANGED << msgs, labels, op, idx, verdict, category, ocalls,
                    muts, todo, out, ret, prevTodo, passes, hist >>

\* one iteration of  for msg in messages: messages().get(...), emails.append
FetchGet ==
    /\ pc = "get"
    /\ LET id == found[Len(batch) + 1]
       IN  \/ /\ ev' = Call("get", id, "", FALSE)
              /\ pc' = "raised"
              /\ UNCHANGED << query, found, batch >>
           \/ /\ get_body_from_google_api_payload(msgs[id].payload).raised
              /\ ev' = Call("get", id, "", TRUE)
              /\ pc' = "raised"
              /\ UNCHANGED << query, found, batch >>
           \/ /\ ~get_body_from_google_api_payload(msgs[id].payload).raised
              /\ ev' = Call("get", id, "", TRUE)
              /\ batch' = Append(batch, EmailRecord(id, msgs[id]))
              /\ IF Len(batch) + 1 = Len(found)
                 THEN pc' = "loop" /\ query' = "" /\ found' = << >>
                 ELSE pc' = "get" /\ UNCHANGED << query, found >>
    /\ UNCHANGED << msgs, labels, op, idx, verdict, category,
                    ocalls, muts, todo, out, ret, prevTodo, passes, hist >>

\* return emails, when fetch_email_by_query is the tool that was called
FetchReturn ==
    /\ op = "fetch" /\ pc = "loop"
    /\ ev' = NoEv
    /\ ret' = batch
    /\ pc' = "done"
    /\ UNCHANGED << msgs, labels, op, query, found, batch, idx, verdict,
                    category, ocalls, muts, todo, out, prevTodo, passes, hist >>

(***************************************************************************)
(* sort_emails                                                             *)
(***************************************************************************)
\* variant: after the last email the loop starts over
SortLoop_restarts ==
    /\ op = "sort" /\ pc = "loop"
    /\ ev' = NoEv
    /\ IF idx = Len(batch)
       THEN /\ pc' = "loop"
            /\ idx' = 0
            /\ UNCHANGED << ret, verdict, category, ocalls >>
       ELSE LET email == batch[idx + 1]
                rule  == rule_based_check(email.subject, email.snippet, email.from)
                v     == classify_return(email, TRUE)
            IN  /\ idx' = idx + 1
                /\ ocalls' = << >>
                /\ verdict' = IF rule THEN v ELSE ""
                /\ category' = IF rule /\ verdict_is_important(v)
                               THEN "inbox" ELSE ""
                /\ pc' = IF ~rule THEN "imp_llm"
                         ELSE IF verdict_is_important(v) THEN "act"
                         ELSE "cat_llm"
                /\ UNCHANGED ret
    /\ UNCHANGED << msgs, labels, op, query, found, batch, muts, todo, out,
                    prevTodo, passes, hist >>

\* for email in unread_emails: ... classify_email's rule stage;
\* after the last email: return "Sorting complete!"
SortLoop ==
    /\ op = "sort" /\ pc = "loop"
    /\ ev' = NoEv
    /\ IF idx = Len(batch)
       THEN /\ pc' = "done"
            /\ ret' = "Sorting complete!"
            /\ UNCHANGED << idx, verdict, category, ocalls >>
       ELSE LET email == batch[idx + 1]
                rule  == rule_based_check(email.subject, email.snippet, email.from)
                v     == classify_return(email, TRUE)
            IN  /\ idx' = idx + 1
                /\ ocalls' = << >>
                /\ verdict' = IF rule THEN v ELSE ""
                /\ category' = IF rule /\ verdict_is_important(v)
                               THEN "inbox" ELSE ""
                /\ pc' = IF ~rule THEN "imp_llm"
                         ELSE IF verdict_is_important(v) THEN "act"
                         ELSE "cat_llm"
                /\ UNCHANGED ret
    /\ UNCHANGED << msgs, labels, op, query, found, batch, muts, todo, out,
                    prevTodo, passes, hist >>

\* classify_email's oracle stage (llm_fallback_check) inside sort_emails
SortImportance ==
    /\ op = "sort" /\ pc = "imp_llm"
    /\ ocalls' = Append(ocalls, "importance")
    /\ \/ /\ ev' = Call("importance", cur.id, "", FALSE)
          /\ pc' = "raised"
          /\ UNCHANGED << verdict, category >>
       \/ \E r \in ImportanceResponses :
            LET v == classify_return(cur, llm_fallback_check(r))
            IN  /\ ev' = Call("importance", cur.id, r, TRUE)
                /\ verdict' = v
                /\ IF verdict_is_important(v)
                   THEN category' = "inbox" /\ pc' = "act"
                   ELSE UNCHANGED category /\ pc' = "cat_llm"
    /\ UNCHANGED << msgs, labels, op, query, found, batch, idx, muts, todo,
                    out, ret, prevTodo, passes, hist >>

\* response = llm.invoke(prompt); category = response.content.strip()
SortCategory ==
    /\ op = "sort" /\ pc = "cat_llm"
    /\ ocalls' = Append(ocalls, "category")
    /\ \/ /\ ev' = Call("category", cur.id, "", FALSE)
          /\ pc' = "raised"
          /\ UNCHANGED category
       \/ \E r \in CategoryResponses :
            /\ ev' = Call("category", cur.id, r, TRUE)
            /\ category' = Strip(r)
            /\ pc' = "act"
    /\ UNCHANGED << msgs, labels, op, query, found, batch, idx, verdict, muts,
                    todo, out, ret, prevTodo, passes, hist >>

categories ==
    { "CATEGORY_PROMOTIONS", "CATEGORY_SOCIAL", "CATEGORY_UPDATES",
      "CATEGORY_FORUMS" }

\* variant: the final else modifies labels without the membership test
action_for_no_member_check(cat) ==
    IF cat = "spam" THEN "spam"
    ELSE IF cat = "trash" THEN "trash"
    ELSE "modify"

\* variant: the trash branch is missing
action_for_no_trash(cat) ==
    IF cat = "spam" THEN "spam"
    ELSE IF cat \in categories THEN "modify"
    ELSE "none"

\* the mail-store request sort_emails issues for a category, "none" if none
action_for(cat) ==
    IF cat = "spam" THEN "spam"
    ELSE IF cat = "trash" THEN "trash"
    ELSE IF cat \in categories THEN "modify"
    ELSE "none"

\* variant: the modification does not remove the inbox label
labels_after_keep_inbox(request, cat, ls) ==
    IF request = "spam" THEN (ls \cup {"SPAM"}) \ {"INBOX"}
    ELSE IF request = "trash" THEN (ls \cup {"TRASH"}) \ {"INBOX"}
    ELSE ls \cup {cat}

\* labels of a message after the mail-store request succeeded
labels_after(request, cat, ls) ==
    IF request = "spam" THEN (ls \cup {"SPAM"}) \ {"INBOX"}
    ELSE IF request = "trash" THEN (ls \cup {"TRASH"}) \ {"INBOX"}
    ELSE (ls \cup {cat}) \ {"INBOX"}

\* "Move email to the appropriate category": at most one mail-store request,
\* which succeeds or raises; nothing in sort_emails catches the exception
SortAct ==
    /\ op = "sort" /\ pc = "act"
    /\ LET request == action_for(category)
       IN  IF request = "none"
           THEN /\ ev' = NoEv
                /\ pc' = "loop"
                /\ UNCHANGED << labels, muts >>
           ELSE /\ muts' = [muts EXCEPT ![cur.id] = @ + 1]
                /\ \/ /\ ev' = Call(request, cur.id, category, FALSE)
                      /\ pc' = "raised"
                      /\ UNCHANGED labels
                   \/ /\ ev' = Call(request, cur.id, category, TRUE)
                      /\ labels' = [labels EXCEPT
                                      ![cur.id] = labels_after(request, category, @)]
                      /\ pc' = "loop"
    /\ UNCHANGED << msgs, op, query, found, batch, idx, verdict, category,
                    ocalls, todo, out, ret, prevTodo, passes, hist >>

(***************************************************************************)
(* get_notifications                                                       *)
(***************************************************************************)
\* variant: sender and subject change places
notif_entry_swapped(email, summary) ==
    [from |-> email.subject, subject |-> email.from, summary |-> summary,
     date |-> email.date]

\* the entry get_notifications appends for an important email
notif_entry(email, summary) ==
    [from |-> email.from, subject |-> email.subject, summary |-> summary,
     date |-> email.date]

NotifLoop ==
    /\ op = "notifications" /\ pc = "loop"
    /\ ev' = NoEv
    /\ IF idx = Len(batch)
       THEN /\ ret' = out
            /\ pc' = "done"
            /\ UNCHANGED << idx, verdict, ocalls, hist >>
       ELSE LET email == batch[idx + 1]
                rule  == rule_based_check(email.subject, email.snippet, email.from)
                v     == classify_return(email, TRUE)
            IN  /\ idx' = idx + 1
                /\ ocalls' = << >>
                /\ verdict' = IF rule THEN v ELSE ""
                /\ hist' = IF rule THEN Append(hist, v) ELSE hist
                /\ pc' = IF ~rule THEN "imp_llm"
                         ELSE IF verdict_is_important(v) THEN "summ_llm"
                         ELSE "loop"
                /\ UNCHANGED ret
    /\ UNCHANGED << msgs, labels, op, query, found, batch, category, muts,
                    todo, out, prevTodo, passes >>

NotifImportance ==
    /\ op = "notifications" /\ pc = "imp_llm"
    /\ ocalls' = Append(ocalls, "importance")
    /\ \/ /\ ev' = Call("importance", cur.id, "", FALSE)
          /\ pc' = "raised"
          /\ UNCHANGED << verdict, hist >>
       \/ \E r \in ImportanceResponses :
            LET v == classify_return(cur, llm_fallback_check(r))
            IN  /\ ev' = Call("importance", cur.id, r, TRUE)
                /\ verdict' = v
                /\ hist' = Append(hist, v)
                /\ pc' = IF verdict_is_important(v) THEN "summ_llm" ELSE "loop"
    /\ UNCHANGED << msgs, labels, op, query, found, batch, idx, category, muts,
                    todo, out, ret, prevTodo, passes >>

\* variant: the summarised message is marked as read
NotifSummarize_marks_read ==
    /\ op = "notifications" /\ pc = "summ_llm"
    /\ ocalls' = Append(ocalls, "summary")
    /\ labels' = [labels EXCEPT ![cur.id] = @ \ {"UNREAD"}]
    /\ \/ /\ ev' = Call("summary", cur.id, "", FALSE)
          /\ pc' = "raised"
          /\ UNCHANGED out
       \/ \E r \in SummaryResponses :
            /\ ev' = Call("summary", cur.id, r, TRUE)
            /\ out' = Append(out, notif_entry(cur, Strip(r)))
            /\ pc' = "loop"
    /\ UNCHANGED << msgs, op, query, found, batch, idx, verdict,
                    category, muts, todo, ret, prevTodo, passes, hist >>

\* summarize_email(email), then notifications.append; a failure of the tool
\* invocation or of the oracle call inside it is the raising outcome
NotifSummarize ==
    /\ op = "notifications" /\ pc = "summ_llm"
    /\ ocalls' = Append(ocalls, "summary")
    /\ \/ /\ ev' = Call("summary", cur.id, "", FALSE)
          /\ pc' = "raised"
          /\ UNCHANGED out
       \/ \E r \in SummaryResponses :
            /\ ev' = Call("summary", cur.id, r, TRUE)
            /\ out' = Append(out, notif_entry(cur, Strip(r)))
            /\ pc' = "loop"
    /\ UNCHANGED << msgs, labels, op, query, found, batch, idx, verdict,
                    category, muts, todo, ret, prevTodo, passes, hist >>

(***************************************************************************)
(* generate_todo, alone (tool call) and inside get_todolist                *)
(***************************************************************************)
\* variant: the rule stage is skipped
todo_gate_always_asks(email) ==
    IF is_spam(email) THEN "return" ELSE "imp_llm"

\* variant: the spam gate is missing
todo_gate_no_spam(email) ==
    IF rule_based_check(email.subject, email.snippet, email.from)
    THEN "extract_llm"
    ELSE "imp_llm"

\* the gates of generate_todo before any oracle call: where it goes next
todo_gate(email) ==
    IF is_spam(email) THEN "return"
    ELSE IF rule_based_check(email.subject, email.snippet, email.from)
         THEN "extract_llm"
    ELSE "imp_llm"

\* variant: the gate lets through what the classifier rejects
todo_after_importance_inverted(important) ==
    IF important THEN "return" ELSE "extract_llm"

\* variant: the else branch does not return
todo_after_importance_no_return(important) == "extract_llm"

\* where generate_todo goes once llm_fallback_check has answered
todo_after_importance(important) ==
    IF important THEN "extract_llm" ELSE "return"

\* variant: only the first line is kept
todo_entry_first_line(email, t) ==
    [from |-> email.from, subject |-> email.subject, todo |-> t[1],
     date |-> email.date]

\* the entry get_todolist appends for an email with a non-empty todo
todo_entry(email, t) ==
    [from |-> email.from, subject |-> email.subject, todo |-> Join(t),
     date |-> email.date]

TodoLoop ==
    /\ op = "todolist" /\ pc = "loop"
    /\ ev' = NoEv
    /\ IF idx = Len(batch)
       THEN /\ ret' = out
            /\ pc' = "done"
            /\ UNCHANGED << idx, ocalls, todo, hist >>
       ELSE LET g == todo_gate(batch[idx + 1])
            IN  /\ idx' = idx + 1
                /\ ocalls' = << >>
                /\ todo' = << >>
                /\ hist' = IF g = "return" THEN Append(hist, << >>) ELSE hist
                /\ pc' = IF g = "return" THEN "loop" ELSE g
                /\ UNCHANGED ret
    /\ UNCHANGED << msgs, labels, op, query, found, batch, verdict, category,
                    muts, out, prevTodo, passes >>

\* the agent calls the generate_todo tool on a fetched email
CallGenerateTodo ==
    /\ op = "idle"
    /\ \E email \in ToolEmails :
         LET g == todo_gate(email)
         IN  /\ op' = "generate_todo"
             /\ batch' = << email >>
             /\ idx' = 1
             /\ pc' = IF g = "return" THEN "done" ELSE g
    /\ ResetLocals
    /\ UNCHANGED << msgs, labels, prevTodo, passes >>

TodoImportance ==
    /\ op \in {"todolist", "generate_todo"} /\ pc = "imp_llm"
    /\ ocalls' = Append(ocalls, "importance")
    /\ \/ /\ ev' = Call("importance", cur.id, "", FALSE)
          /\ pc' = "raised"
          /\ UNCHANGED hist
       \/ \E r \in ImportanceResponses :
            /\ ev' = Call("importance", cur.id, r, TRUE)
            /\ pc' = IF todo_after_importance(llm_fallback_check(r)) = "extract_llm"
                     THEN "extract_llm"
                     ELSE IF op = "todolist" THEN "loop" ELSE "done"
            /\ hist' = IF op = "todolist" /\ pc' = "loop"
                       THEN Append(hist, << >>) ELSE hist
    /\ UNCHANGED << msgs, labels, op, query, found, batch, idx, verdict,
                    category, muts, todo, out, ret, prevTodo, passes >>

\* response = llm.invoke(prompt) and the normalisation of the response
TodoExtract ==
    /\ op \in {"todolist", "generate_todo"} /\ pc = "extract_llm"
    /\ ocalls' = Append(ocalls, "extract")
    /\ \/ /\ ev' = Call("extract", cur.id, "", FALSE)
          /\ pc' = "raised"
          /\ UNCHANGED << todo, out, ret, hist >>
       \/ \E r \in ExtractResponses :
            LET t == todo_from_response(r)
            IN  /\ ev' = Call("extract", cur.id, r, TRUE)
                /\ todo' = t
                /\ IF op = "todolist"
                   THEN /\ out' = IF t = << >> THEN out
                                  ELSE Append(out, todo_entry(cur, t))
                        /\ hist' = Append(hist, t)
                        /\ pc' = "loop"
                        /\ UNCHANGED ret
                   ELSE /\ ret' = t
                        /\ pc' = "done"
                        /\ UNCHANGED << out, hist >>
    /\ UNCHANGED << msgs, labels, op, query, found, batch, idx, verdict,
                    category, muts, prevTodo, passes >>

(***************************************************************************)
(* classify_email as a tool call                                           *)
(***************************************************************************)
CallClassify ==
    /\ op = "idle"
    /\ \E email \in ToolEmails :
         LET rule  == rule_based_check(email.subject, email.snippet, email.from)
         IN  /\ op' = "classify_email"
             /\ batch' = << email >>
             /\ idx' = 1
             /\ query' = ""
             /\ found' = << >>
             /\ category' = ""
             /\ ocalls' = << >>
             /\ muts' = [j \in Ids |-> 0]
             /\ todo' = << >>
             /\ out' = << >>
             /\ ev' = NoEv
             /\ hist' = << >>
             /\ verdict' = IF rule THEN classify_return(email, TRUE) ELSE ""
             /\ ret' = IF rule THEN classify_return(email, TRUE) ELSE << >>
             /\ pc' = IF rule THEN "done" ELSE "imp_llm"
    /\ prevTodo' = NoPrev
    /\ UNCHANGED << msgs, labels, passes >>

ClassifyImportance ==
    /\ op = "classify_email" /\ pc = "imp_llm"
    /\ ocalls' = Append(ocalls, "importance")
    /\ \/ /\ ev' = Call("importance", cur.id, "", FALSE)
          /\ pc' = "raised"
          /\ UNCHANGED << verdict, ret >>
       \/ \E r \in ImportanceResponses :
            LET v == classify_return(cur, llm_fallback_check(r))
            IN  /\ ev' = Call("importance", cur.id, r, TRUE)
                /\ verdict' = v
                /\ ret' = v
                /\ pc' = "done"
    /\ UNCHANGED << msgs, labels, op, query, found, batch, idx, category, muts,
                    todo, out, prevTodo, passes, hist >>

(***************************************************************************)
(* The operation returned or raised: the caller takes over                 *)
(***************************************************************************)
Return ==
    /\ pc \in {"done", "raised"}
    /\ prevTodo' = IF op = "generate_todo" /\ pc = "done"
                   THEN [email |-> cur, todo |-> ret, ncalls |-> Len(ocalls)]
                   ELSE NoPrev
    /\ op' = "idle"
    /\ pc' = "idle"
    /\ batch' = << >>
    /\ idx' = 0
    /\ ResetLocals
    /\ UNCHANGED << msgs, labels, passes >>

Next ==
    \/ StartSort
    \/ StartTodolist
    \/ StartNotifications
    \/ StartFetch
    \/ FetchQuery
    \/ FetchSearch
    \/ FetchGet
    \/ FetchReturn
    \/ SortLoop
    \/ SortImportance
    \/ SortCategory
    \/ SortAct
    \/ NotifLoop
    \/ NotifImportance
    \/ NotifSummarize
    \/ TodoLoop
    \/ CallGenerateTodo
    \/ TodoImportance
    \/ TodoExtract
    \/ CallClassify
    \/ ClassifyImportance
    \/ Return

Spec == Init /\ [][Next]_vars

\* the /automatedsort endpoint alone (requests are served one at a time and
\* the other operations leave the mail store as it is)
NextSort ==
    \/ StartSort
    \/ FetchQuery
    \/ FetchSearch
    \/ FetchGet
    \/ SortLoop
    \/ SortImportance
    \/ SortCategory
    \/ SortAct
    \/ Return

InitSort == Init /\ msgs \in [Ids -> SortMsgs]

SpecSort == InitSort /\ [][NextSort]_vars

\* the steps of a sort pass that has started
SortStep ==
    \/ FetchQuery
    \/ FetchSearch
    \/ FetchGet
    \/ SortLoop
    \/ SortImportance
    \/ SortCategory
    \/ SortAct

\* the /notifications and /todolist endpoints alone
NextViews ==
    \/ StartTodolist
    \/ StartNotifications
    \/ FetchQuery
    \/ FetchSearch
    \/ FetchGet
    \/ NotifLoop
    \/ NotifImportance
    \/ NotifSummarize
    \/ TodoLoop
    \/ TodoImportance
    \/ TodoExtract
    \/ Return

SpecViews == Init /\ [][NextViews]_vars

\* calls of the classify_email and generate_todo tools alone; they take the
\* email dict as argument and never read the mail store
InitTools ==
    /\ Init
    /\ msgs = [i \in Ids |-> CHOOSE m \in StoreMsgs : TRUE]
    /\ labels = [i \in Ids |-> {"INBOX"}]

NextTools ==
    \/ CallGenerateTodo
    \/ TodoImportance
    \/ TodoExtract
    \/ CallClassify
    \/ ClassifyImportance
    \/ Return

SpecTools == InitTools /\ [][NextTools]_vars

\* the three endpoints over a mailbox that holds the message the rule stage
\* finds important and one of the others
InitPipes ==
    /\ \E other \in { m \in StoreMsgs : m \notin SortMsgs
                                          \/ m.headers.Subject = "Weekly Newsletter" } :
          msgs = [i \in Ids |->
                    IF i % 2 = 0 THEN other
                    ELSE CHOOSE m \in SortMsgs :
                           m.headers.Subject # "Weekly Newsletter"]
    /\ labels = [i \in Ids |-> {"INBOX", "UNREAD", "IMPORTANT"}]
    /\ InitIdle

NextPipes ==
    \/ StartSort
    \/ StartTodolist
    \/ StartNotifications
    \/ FetchQuery
    \/ FetchSearch
    \/ FetchGet
    \/ SortLoop
    \/ SortImportance
    \/ SortCategory
    \/ SortAct
    \/ NotifLoop
    \/ NotifImportance
    \/ NotifSummarize
    \/ TodoLoop
    \/ TodoImportance
    \/ TodoExtract
    \/ Return

SpecPipes == InitPipes /\ [][NextPipes]_vars

\* calls of the fetch_email_by_query tool alone, over messages of every
\* payload shape; the labels only decide which messages a search matches
InitFetch ==
    /\ msgs \in [Ids -> FetchMsgs]
    /\ labels = [i \in Ids |-> {"INBOX", "UNREAD", "IMPORTANT"}]
    /\ InitIdle

NextFetch ==
    \/ StartFetch
    \/ FetchQuery
    \/ FetchSearch
    \/ FetchGet
    \/ FetchReturn
    \/ Return

SpecFetch == InitFetch /\ [][NextFetch]_vars

(***************************************************************************)
(* Properties                                                              *)
(***************************************************************************)
Range(f) == { f[i] : i \in DOMAIN f }

\* an email of the batch is being processed or has just been processed
HasCur == idx \in 1..Len(batch)

ClassifyOps == {"classify_email", "sort", "notifications"}
TodoOps == {"generate_todo", "todolist"}
MutKinds == {"spam", "trash", "modify"}

\* the lower-cased subject and body hold an importance keyword
KeywordMatch(e) ==
    \E kw \in IMPORTANT_KEYWORDS :
        Contains(Lower(e.subject \o " " \o e.snippet), kw)

\* the lower-cased sender holds a VIP pattern
VipSender(e) ==
    Contains(Lower(e.from), "boss@") \/ Contains(Lower(e.from), "teamlead@")

\* the importance oracle has just answered
ImportanceAnswered == ev.kind = "importance" /\ ev.ok

\* C1: an email whose lower-cased subject and body hold an importance
\* keyword, or whose lower-cased sender holds "boss@" or "teamlead@", is
\* classified "important" and no importance oracle call is made for it.
C1_RuleStageShortCircuits ==
    (op \in ClassifyOps /\ HasCur /\ (KeywordMatch(cur) \/ VipSender(cur)))
    => /\ verdict = "important"
       /\ "importance" \notin Range(ocalls)
       /\ pc # "imp_llm"
       /\ (op = "classify_email" => pc = "done" /\ ret = "important")

C1_Witness ==
    /\ op = "classify_email" /\ pc = "done"
    /\ VipSender(cur) /\ ~KeywordMatch(cur)
    /\ ret = "important" /\ ocalls = << >>

\* C2: once the rule stage did not match, the verdict is important exactly
\* when the oracle's response, trimmed and lower-cased, equals "yes";
\* "Maybe", the empty response and "yes." give not-important.
C2_OnlyYesIsImportant ==
    (HasCur /\ ImportanceAnswered)
    => /\ op \in ClassifyOps =>
            /\ verdict = "important" <=> Lower(Strip(ev.text)) = "yes"
            /\ ev.text \in {"Maybe", "", "yes."} =>
                   verdict = "not important - " \o cur.subject
       /\ op \in TodoOps =>
            /\ pc = "extract_llm" <=> Lower(Strip(ev.text)) = "yes"
            /\ ev.text \in {"Maybe", "", "yes."} => pc \in {"loop", "done"}

C2_Witness ==
    /\ op = "classify_email" /\ pc = "done"
    /\ ImportanceAnswered /\ ev.text = "yes."
    /\ ret = "not important - " \o cur.subject

\* C3: in a sort pass an email found important gets category inbox, no
\* category oracle request and no mail-store mutation request.
C3_ImportantStaysInInbox ==
    (op = "sort" /\ HasCur /\ verdict = "important")
    => /\ category = "inbox"
       /\ "category" \notin Range(ocalls)
       /\ muts[cur.id] = 0
       /\ ev.kind \notin MutKinds
       /\ pc \in {"act", "loop", "done"}

C3_Witness ==
    /\ op = "sort" /\ pc = "loop" /\ HasCur
    /\ verdict = "important" /\ ocalls = << "importance" >>
    /\ category = "inbox" /\ muts[cur.id] = 0

\* the labels the category prompt offers
FixedLabels == {"trash", "spam", "inbox"} \cup categories

\* the category oracle answered for the current email, and the answer is
\* kept in category
CategoryAnswered == op = "sort" /\ HasCur /\ "category" \in Range(ocalls)
                    /\ ~(ev.kind = "category" /\ ~ev.ok)

\* C4: a category response outside the fixed labels leads to no mail-store
\* mutation request and no error, and the pass goes on with the loop.
C4_UnknownLabelIsInbox ==
    (CategoryAnswered /\ category \notin FixedLabels)
    => /\ muts[cur.id] = 0
       /\ ev.kind \notin MutKinds
       /\ pc \in {"act", "loop", "done"}

C4_Witness ==
    /\ CategoryAnswered /\ category = "junk"
    /\ pc = "loop" /\ muts[cur.id] = 0 /\ idx < Len(batch)

\* the terminal label of a category value
TerminalLabel(cat) == IF cat \in FixedLabels THEN cat ELSE "inbox"

\* the current email has been through the action part of the loop body
Actioned ==
    /\ op = "sort" /\ HasCur
    /\ pc \in {"loop", "done"} \/ (pc = "raised" /\ ev.kind \in MutKinds)

\* C5: in a sort pass no message gets more than one mutation request: one
\* when its terminal label is spam, trash or a category label, none when it
\* is inbox, and none for the messages not yet reached.
C5_AtMostOneMutation ==
    op = "sort"
    => /\ \A i \in Ids : muts[i] <= 1
       /\ \A j, k \in 1..Len(batch) : batch[j].id = batch[k].id => j = k
       /\ \A k \in (idx + 1)..Len(batch) : muts[batch[k].id] = 0
       /\ Actioned =>
            muts[cur.id] = IF TerminalLabel(category) = "inbox" THEN 0 ELSE 1

C5_Witness ==
    /\ Actioned /\ pc = "loop" /\ idx = 2
    /\ category = "trash" /\ muts[cur.id] = 1
    /\ muts[batch[1].id] = 1

\* C6: a failed mail-store mutation is caught for its message: the pass goes
\* on with the loop.
C6_MutationFailureCaught ==
    (op = "sort" /\ ev.kind \in MutKinds /\ ~ev.ok) => pc = "loop"

\* C7: a failed oracle call of the importance classifier, the task extractor
\* or the category sorter does not end the operation with an exception.
C7_OracleFailureContained ==
    (ev.kind \in {"importance", "category", "extract"} /\ ~ev.ok)
    => pc # "raised"

\* C8: for an email is_spam flags, generate_todo returns the empty list with
\* no oracle call, and so did the preceding call on the same email.
C8_SpamGivesNoTodo ==
    (op \in TodoOps /\ HasCur /\ is_spam(cur))
    => /\ ocalls = << >>
       /\ todo = << >>
       /\ pc \in {"loop", "done"}
       /\ op = "generate_todo" => ret = << >>
       /\ (op = "generate_todo" /\ prevTodo.email = cur)
              => prevTodo.todo = << >> /\ prevTodo.ncalls = 0

C8_Witness ==
    /\ op = "generate_todo" /\ pc = "done"
    /\ is_spam(cur) /\ prevTodo.email = cur
    /\ ret = << >> /\ prevTodo.todo = << >>

\* C9: for a non-spam email the rule stage does not match and the oracle
\* does not deem important, generate_todo returns the empty list and makes
\* no extraction request.
C9_NotImportantGivesNoTodo ==
    (/\ op \in TodoOps /\ HasCur
     /\ ~is_spam(cur)
     /\ ~(KeywordMatch(cur) \/ VipSender(cur))
     /\ ImportanceAnswered /\ Lower(Strip(ev.text)) # "yes")
    => /\ todo = << >>
       /\ "extract" \notin Range(ocalls)
       /\ pc \in {"loop", "done"}
       /\ op = "generate_todo" => ret = << >>

C9_Witness ==
    /\ op = "generate_todo" /\ pc = "done"
    /\ ~is_spam(cur) /\ ~(KeywordMatch(cur) \/ VipSender(cur))
    /\ ImportanceAnswered /\ ev.text = "Maybe"
    /\ ret = << >> /\ ocalls = << "importance" >>

\* C10: the search expression a sort pass sends to the mail store is
\* "is:unread", and every message the pass mutates is an unread one.
C10_SortSearchesUnread ==
    op = "sort"
    => /\ ev.kind = "search" => ev.text = "is:unread"
       /\ \A i \in Ids : muts[i] > 0 => "UNREAD" \in labels[i]

(***************************************************************************)
(* The body extractor and the fetched Email records                        *)
(***************************************************************************)
\* the payload of the message behind the k-th fetched email
PayloadOf(k) == msgs[batch[k].id].payload

\* a text/plain leaf that carries data
PlainLeaf(part) ==
    /\ mimeType(part) = "text/plain"
    /\ "body" \in DOMAIN part
    /\ "data" \in DOMAIN part.body

RECURSIVE FirstPlain(_)
\* content of the first text/plain leaf of the parts in depth-first order,
\* "" when there is none
FirstPlain(parts) ==
    IF Len(parts) = 0 THEN ""
    ELSE LET part  == Head(parts)
             below == IF "parts" \in DOMAIN part THEN FirstPlain(part.parts) ELSE ""
         IN  IF PlainLeaf(part) THEN part.body.data.text
             ELSE IF below # "" THEN below
             ELSE FirstPlain(Tail(parts))

\* C11: the body of a fetched email is the content of the first text/plain
\* leaf of its payload in depth-first order; no later text/plain leaf
\* replaces it.
C11_FirstPlainLeafWins ==
    \A k \in 1..Len(batch) :
        LET p     == PayloadOf(k)
            first == FirstPlain(IF "parts" \in DOMAIN p THEN p.parts ELSE <<p>>)
        IN  first # "" => batch[k].snippet = Truncate(first)

\* C12: the body extractor never raises to its caller: once the mail store
\* has delivered the message, the fetch does not end with an exception.
C12_ExtractorNeverRaises ==
    (ev.kind = "get" /\ ev.ok) => pc # "raised"

\* the first n characters of s, all of s when it is shorter
FirstChars(s, n) == IF Len(s) <= n THEN s ELSE SubSeq(s, 1, n)

\* C13: the body stored in a fetched Email record has at most 1003
\* characters: an extracted body of more than 500 characters is stored as
\* its first 1000 characters followed by "...", one of at most 500
\* characters is stored unchanged.
C13_StoredBodyTruncated ==
    \A k \in 1..Len(batch) :
        LET body == get_body_from_google_api_payload(PayloadOf(k)).text
        IN  /\ Len(batch[k].snippet) <= 1003
            /\ Len(body) > 500 => batch[k].snippet = FirstChars(body, 1000) \o "..."
            /\ Len(body) <= 500 => batch[k].snippet = body

C13_Witness ==
    /\ op = "fetch" /\ pc = "done" /\ Len(ret) = 2
    /\ Len(get_body_from_google_api_payload(PayloadOf(1)).text) = 1005
    /\ Len(ret[1].snippet) = 1003
    /\ Len(get_body_from_google_api_payload(PayloadOf(2)).text) = 501
    /\ Len(ret[2].snippet) = 504

(***************************************************************************)
(* The views: get_notifications and get_todolist                           *)
(***************************************************************************)
\* sender, subject and date of the entries of a view
Heads(entries) ==
    [k \in 1..Len(entries) |->
        [from |-> entries[k].from, subject |-> entries[k].subject,
         date |-> entries[k].date]]

RECURSIVE ImportantFrom(_)
\* sender, subject and date of the emails classified important among the
\* processed emails from the k-th on, in batch order
ImportantFrom(k) ==
    IF k > Len(hist) THEN << >>
    ELSE (IF hist[k] = "important"
          THEN << [from |-> batch[k].from, subject |-> batch[k].subject,
                   date |-> batch[k].date] >>
          ELSE << >>) \o ImportantFrom(k + 1)

\* C14: get_notifications returns, in batch order, one entry {from, subject,
\* summary, date} for each fetched email classified important and none for
\* the others, and the summary oracle is called only for an email already
\* classified important.
C14_NotificationsAreImportantEmails ==
    op = "notifications"
    => /\ pc \in {"loop", "done"}
            => /\ Len(hist) = idx
               /\ Heads(out) = ImportantFrom(1)
               /\ \A k \in 1..Len(out) :
                     DOMAIN out[k] = {"from", "subject", "summary", "date"}
       /\ pc = "done" => idx = Len(batch) /\ ret = out
       /\ "summary" \in Range(ocalls) => HasCur /\ hist[idx] = "important"
       /\ (ev.kind = "summary" /\ ev.ok) => out[Len(out)].summary = Strip(ev.text)

C14_Witness ==
    /\ op = "notifications" /\ pc = "done"
    /\ Len(batch) = 2 /\ Len(ret) = 1
    /\ hist[1] # "important" /\ hist[2] = "important"
    /\ ret[1].subject = batch[2].subject

RECURSIVE TasksFrom(_)
\* the entries for the emails with a non-empty task sequence among the
\* processed emails from the k-th on, in batch order
TasksFrom(k) ==
    IF k > Len(hist) THEN << >>
    ELSE (IF hist[k] # << >>
          THEN << [from |-> batch[k].from, subject |-> batch[k].subject,
                   todo |-> Join(hist[k]), date |-> batch[k].date] >>
          ELSE << >>) \o TasksFrom(k + 1)

\* C15: get_todolist returns, in batch order, one entry for each fetched
\* email whose extracted task sequence is non-empty and none for the
\* others; the todo field is the task lines joined by single spaces.
C15_TodolistIsNonEmptyTasks ==
    (op = "todolist" /\ pc \in {"loop", "done"})
    => /\ Len(hist) = idx
       /\ out = TasksFrom(1)
       /\ pc = "done" => idx = Len(batch) /\ ret = out
       /\ \A k \in 1..Len(out) :
             out[k].todo # ""
             => out[k].todo = "Deadline today - submit report by Friday  \t reply to sender"

C15_Witness ==
    /\ op = "todolist" /\ pc = "done"
    /\ Len(batch) = 2 /\ Len(ret) = 1
    /\ hist[1] = << >> /\ Len(hist[2]) = 4
    /\ ret[1].subject = batch[2].subject

(***************************************************************************)
(* The response of the task extraction                                     *)
(***************************************************************************)
\* the oracle has answered the extraction prompt for the current email
ExtractAnswered == op \in TodoOps /\ HasCur /\ ev.kind = "extract" /\ ev.ok

Sentinels == { "", "none", "no tasks", "no task", "no action", "empty string" }

\* C16: when the whole extraction response, trimmed and lower-cased, is an
\* empty-result sentinel, generate_todo returns the empty list, not a list
\* holding the sentinel.
C16_SentinelGivesEmptyList ==
    (ExtractAnswered /\ Lower(Strip(ev.text)) \in Sentinels)
    => /\ todo = << >>
       /\ op = "generate_todo" => pc = "done" /\ ret = << >>

C16_Witness ==
    /\ ExtractAnswered /\ op = "generate_todo" /\ pc = "done"
    /\ ev.text = " None\n"
    /\ ret = << >>

\* C17: every element generate_todo returns is a normalized task line: not
\* empty, no leading or trailing whitespace, no leading bullet marker "-".
C17_TaskLinesNormalized ==
    (op = "generate_todo" /\ pc = "done")
    => \A k \in 1..Len(ret) :
          /\ ret[k] # ""
          /\ Strip(ret[k]) = ret[k]
          /\ CharAt(ret[k], 1) # "-"

(***************************************************************************)
(* Spam, letter case and the verdict values                                *)
(***************************************************************************)
\* C18: for an email is_spam flags, generate_todo returns the empty list and
\* a sort pass does not give the message the inbox label through the
\* importance path, whatever the oracle answers.
C18_SpamNotPromoted ==
    (HasCur /\ is_spam(cur))
    => /\ op \in TodoOps => todo = << >>
       /\ op = "sort" => ~(verdict = "important" /\ category = "inbox")

\* C19: responses that differ only in letter case are treated alike: the
\* importance verdict is that of the lower-cased response, and a category
\* response that spells a fixed label in any letter case gets the label's
\* mail-store action.
C19_CaseInsensitiveResponses ==
    /\ (op = "sort" /\ ImportanceAnswered)
          => (verdict = "important" <=> Lower(Strip(ev.text)) = "yes")
    /\ (Actioned /\ pc # "raised" /\ "category" \in Range(ocalls))
          => \A l \in FixedLabels :
                Lower(category) = Lower(l)
                => muts[cur.id] = IF l = "inbox" THEN 0 ELSE 1

\* C20: classify_email returns one of two values, the important verdict or
\* the not-important verdict, with nothing of the email in it.
C20_TwoVerdictValues ==
    (op = "classify_email" /\ pc = "done")
    => ret \in {"important", "not important"}

(***************************************************************************)
(* The action part of a sort pass                                          *)
(***************************************************************************)
\* the step is the action part of the loop body for the current email
ActStep == op = "sort" /\ pc = "act" /\ pc' # "act"

\* C21: the mail-store action of the sorter is determined by the terminal
\* label alone: spam gives the spam request, trash the trash request, a
\* category label one modification adding that label and removing INBOX,
\* inbox no request; no other message is touched.
C21_ActionFollowsLabel ==
    [][ActStep =>
          LET t == TerminalLabel(category)
          IN  /\ t = "spam" => ev'.kind = "spam" /\ ev'.id = cur.id
              /\ t = "trash" => ev'.kind = "trash" /\ ev'.id = cur.id
              /\ t \in categories
                    => /\ ev'.kind = "modify" /\ ev'.id = cur.id /\ ev'.text = t
                       /\ ev'.ok => labels'[cur.id] = (labels[cur.id] \cup {t}) \ {"INBOX"}
              /\ t = "inbox" => ev'.kind = "none" /\ labels' = labels
              /\ ~ev'.ok => labels' = labels
              /\ \A i \in Ids \ {cur.id} : labels'[i] = labels[i] /\ muts'[i] = muts[i]
              /\ muts'[cur.id] = muts[cur.id] + (IF t = "inbox" THEN 0 ELSE 1)
       ]_vars

C21_Witness ==
    /\ op = "sort" /\ pc = "loop" /\ HasCur
    /\ ev.kind = "modify" /\ ev.ok /\ ev.id = cur.id
    /\ category = "CATEGORY_PROMOTIONS"
    /\ "CATEGORY_PROMOTIONS" \in labels[cur.id]
    /\ "INBOX" \notin labels[cur.id]

(***************************************************************************)
(* is_spam                                                                 *)
(***************************************************************************)
IsPunct(c) == ~IsWord(c) /\ ~IsSpace(c)

\* s with its i-th character replaced by c
ReplaceAt(s, i, c) == SubSeq(s, 1, i - 1) \o c \o SubSeq(s, i + 1, Len(s))

\* the texts s becomes when one punctuation character is replaced by another
\* or by a space
PunctVariants(s) ==
    { ReplaceAt(s, i, c) :
        i \in { j \in 1..Len(s) : IsPunct(CharAt(s, j)) },
        c \in {" ", "!", ".", "-", ",", "?"} }

\* C22: is_spam is pure and deterministic: the spam gate makes no oracle or
\* mail-store call, a second call on the same email is gated the same way,
\* and replacing one punctuation character of the subject or the body by
\* another or by a space does not change the verdict.
C22_SpamVerdictStable ==
    (op \in TodoOps /\ HasCur)
    => /\ \A t \in PunctVariants(cur.subject) :
             is_spam([cur EXCEPT !.subject = t]) = is_spam(cur)
       /\ \A t \in PunctVariants(cur.snippet) :
             is_spam([cur EXCEPT !.snippet = t]) = is_spam(cur)
       /\ is_spam(cur) => ocalls = << >> /\ ev.kind = "none"
       /\ (op = "generate_todo" /\ prevTodo.email = cur)
             => (prevTodo.ncalls = 0 <=> is_spam(cur))

C22_Witness ==
    /\ op = "generate_todo" /\ pc = "done"
    /\ cur.subject = "Flash SALE!" /\ is_spam(cur)
    /\ prevTodo.email = cur /\ prevTodo.ncalls = 0

(***************************************************************************)
(* Failures of the fetch                                                   *)
(***************************************************************************)
Pipelines == {"sort", "todolist", "notifications"}

\* the mail-store search or a message fetch has failed
FetchFailed == ev.kind \in {"search", "get"} /\ ~ev.ok

\* C23: a failure of the mail-store search or fetch during a pipeline
\* operation surfaces to the caller as a failure of the operation: nothing
\* is returned, no entry has been built and no mail-store mutation has been
\* requested.
C23_FetchFailureSurfaces ==
    (op \in Pipelines /\ FetchFailed)
    => /\ pc = "raised"
       /\ ret = << >> /\ out = << >>
       /\ idx = 0 /\ ocalls = << >>
       /\ \A i \in Ids : muts[i] = 0

C23_Witness ==
    /\ op = "notifications" /\ FetchFailed /\ ev.kind = "get"
    /\ Len(batch) = 1 /\ pc = "raised"

(***************************************************************************)
(* The HTML fallback of the body extractor                                 *)
(***************************************************************************)
\* a text/html leaf that carries data
HtmlLeaf(part) ==
    /\ mimeType(part) = "text/html"
    /\ "body" \in DOMAIN part
    /\ "data" \in DOMAIN part.body

RECURSIVE LastHtml(_)
\* content of the last text/html leaf of the parts in depth-first order,
\* "" when there is none
LastHtml(parts) ==
    IF Len(parts) = 0 THEN ""
    ELSE LET part  == parts[Len(parts)]
             below == IF "parts" \in DOMAIN part THEN LastHtml(part.parts) ELSE ""
             rest  == LastHtml(SubSeq(parts, 1, Len(parts) - 1))
         IN  IF below # "" THEN below
             ELSE IF HtmlLeaf(part) THEN part.body.data.text
             ELSE rest

\* the parts the traversal of the k-th fetched message goes through
PartsOf(k) ==
    IF "parts" \in DOMAIN PayloadOf(k) THEN PayloadOf(k).parts ELSE <<PayloadOf(k)>>

\* no tag, style sheet or script is left in the text
NoMarkup(text) ==
    /\ ~Contains(text, "<") /\ ~Contains(text, ">")
    /\ ~Contains(text, "color") /\ ~Contains(text, "x()")

\* C24: without a text/plain leaf with data, the body is the text of the last
\* text/html leaf of the traversal, img, script and style elements removed;
\* without a text/html leaf either, it is "No readable body found.".
C24_HtmlFallback ==
    \A k \in 1..Len(batch) :
        FirstPlain(PartsOf(k)) = ""
        => IF LastHtml(PartsOf(k)) # ""
           THEN /\ batch[k].snippet = Truncate(html_text(LastHtml(PartsOf(k))))
                /\ NoMarkup(batch[k].snippet)
                /\ ~Contains(batch[k].snippet, "first rendering")
           ELSE batch[k].snippet = "No readable body found."

C24_Witness ==
    /\ op = "fetch" /\ pc = "done" /\ Len(ret) = 2
    /\ FirstPlain(PartsOf(1)) = "" /\ LastHtml(PartsOf(1)) # ""
    /\ ret[1].snippet = "Hello\nWorld"
    /\ FirstPlain(PartsOf(2)) = "" /\ LastHtml(PartsOf(2)) = ""
    /\ ret[2].snippet = "No readable body found."

(***************************************************************************)
(* Order of a sort pass                                                    *)
(***************************************************************************)
\* external calls a sort pass makes for one message
PerMessageCalls == {"importance", "category"} \cup MutKinds

\* C25: a sort pass processes the batch in sequence: every oracle call and
\* mutation is for the message at the current position, the position moves
\* one message at a time, and only once the message before has been through
\* classification, category request and mail-store action.
C25_SortInSequence ==
    [][(op = "sort" /\ op' = "sort")
         => /\ idx' \in {idx, idx + 1}
            /\ idx' = idx + 1
                  => /\ pc = "loop"
                     /\ idx >= 1 =>
                          muts[batch[idx].id] =
                             IF TerminalLabel(category) = "inbox" THEN 0 ELSE 1
                     /\ muts[batch[idx'].id] = 0
                     /\ ev'.kind \notin PerMessageCalls
            /\ ev'.kind \in PerMessageCalls
                  => /\ idx' = idx
                     /\ ev'.id = batch[idx].id
                     /\ \A k \in (idx + 1)..Len(batch) : muts'[batch[k].id] = 0
       ]_vars

C25_Witness ==
    /\ op = "sort" /\ idx = 2 /\ pc = "act"
    /\ ev.kind = "category" /\ ev.ok /\ ev.id = batch[2].id
    /\ batch[1].id # batch[2].id
    /\ muts[batch[1].id] = 1 /\ muts[batch[2].id] = 0

(***************************************************************************)
(* The views leave the mail store alone                                    *)
(***************************************************************************)
Views == {"todolist", "notifications"}

\* the fetch of the operation is over
Fetched == pc \notin {"fetch_llm", "search", "get"}

\* C26: get_notifications and get_todolist are read-only: no step of theirs
\* changes the messages or the labels of the mail store or issues a
\* mutation request, and the fetched email records stay as they were
\* fetched.
C26_ViewsReadOnly ==
    [][(op \in Views)
         => /\ msgs' = msgs /\ labels' = labels
            /\ ev'.kind \notin MutKinds
            /\ \A i \in Ids : muts'[i] = 0
            /\ (Fetched /\ op' = op) => (batch' = batch)
       ]_vars

C26_Witness ==
    /\ op = "todolist" /\ pc = "done" /\ Len(batch) = 2
    /\ Len(ret) = 2 /\ ev.kind = "none"
    /\ \A k \in 1..2 : batch[k] = EmailRecord(batch[k].id, msgs[batch[k].id])

(***************************************************************************)
(* Termination of a sort pass                                              *)
(***************************************************************************)
\* the pass has returned its acknowledgement, every message processed
SortCompleted ==
    /\ op = "sort" /\ pc = "done"
    /\ ret = "Sorting complete!"
    /\ idx = Len(batch)

\* an oracle or mail-store call of the pass did not return
SortCallFailed == op = "sort" /\ pc = "raised" /\ ~ev.ok

\* the pass is between its start and its return or exception
Running == op = "sort" /\ pc \notin {"done", "raised"}

\* a bound on the number of steps the pass can still take
StepsLeft ==
    IF pc = "fetch_llm" THEN 5 * MaxMsgs + 4
    ELSE IF pc = "search" THEN 5 * MaxMsgs + 3
    ELSE IF pc = "get" THEN 4 * MaxMsgs + 2 + (Len(found) - Len(batch))
    ELSE IF pc \in {"done", "raised"} THEN 0
    ELSE 4 * (Len(batch) - idx) + 1 +
         (IF pc = "imp_llm" THEN 3 ELSE IF pc = "cat_llm" THEN 2
          ELSE IF pc = "act" THEN 1 ELSE 0)

NoQueryAnswer == ev.kind = "query" /\ ev.ok /\ Strip(ev.text) = "None"

\* C28: when the query-extraction oracle answers "None",
\* fetch_email_by_query goes on to return the empty list, and no search
\* with the text None is ever sent to the mail store.
C28_NoneAnswerSkipsSearch ==
    /\ NoQueryAnswer => (pc = "loop" /\ batch = << >>)
    /\ ~(ev.kind = "search" /\ ev.text = "None")

(***************************************************************************)
(* Oracle calls per email                                                  *)
(***************************************************************************)
RuleMatch(e) == rule_based_check(e.subject, e.snippet, e.from)

\* the oracle calls of kind k made for the current email
CallsOf(k) == SelectSeq(ocalls, LAMBDA c : c = k)

\* C29: per email the oracle calls are bounded by the gates: classify_email
\* makes at most one (the importance request) and none when the rule stage
\* matches; a sort pass makes the importance request, then the category
\* request, or stops earlier, and makes none when the rule stage matches;
\* generate_todo makes none for spam, the extraction request alone when the
\* rule stage matches, and otherwise the importance request followed by at
\* most the extraction request.
C29_OracleCallsBounded ==
    (op \in Pipelines /\ HasCur) =>
       /\ op = "notifications" =>
            /\ Len(CallsOf("importance")) <= 1
            /\ CallsOf("category") = << >> /\ CallsOf("extract") = << >>
            /\ RuleMatch(cur) => CallsOf("importance") = << >>
       /\ op = "sort" =>
            /\ ocalls \in { << >>, <<"importance">>, <<"importance", "category">> }
            /\ RuleMatch(cur) => ocalls = << >>
       /\ op = "todolist" =>
            /\ is_spam(cur) => ocalls = << >>
            /\ (~is_spam(cur) /\ RuleMatch(cur)) =>
                  /\ ocalls \in { << >>, <<"extract">> }
                  /\ pc = "loop" => ocalls = <<"extract">>
            /\ (~is_spam(cur) /\ ~RuleMatch(cur)) =>
                  ocalls \in { << >>, <<"importance">>,
                               <<"importance", "extract">> }

C29_Witness ==
    /\ op = "todolist" /\ pc = "loop" /\ HasCur
    /\ ~is_spam(cur) /\ ~RuleMatch(cur)
    /\ ocalls = <<"importance", "extract">>
    /\ hist # << >> /\ is_spam(batch[1]) = FALSE /\ RuleMatch(batch[1])

(***************************************************************************)
(* The importance gate of generate_todo and classify_email                 *)
(***************************************************************************)
\* what classify_email returns for an email when the oracle, if asked,
\* gives this answer
ClassifyResult(email, answer) ==
    classify_return(email, RuleMatch(email) \/ llm_fallback_check(answer))

\* generate_todo is at, or past, its extraction request for the current email
AtExtraction ==
    /\ op \in TodoOps /\ HasCur
    /\ pc = "extract_llm" \/ "extract" \in Range(ocalls)

\* C30: the importance gate of generate_todo agrees with classify_email:
\* classify_email returns ClassifyResult, and generate_todo reaches its
\* extraction request only for an email is_spam does not flag and for which
\* classify_email, given the same oracle answer, returns "important"; it asks
\* the oracle exactly when classify_email does.
C30_GateAgreesWithClassifier ==
    /\ (op = "classify_email" /\ pc = "done")
          => /\ ret = ClassifyResult(cur, IF ImportanceAnswered THEN ev.text ELSE "")
             /\ ImportanceAnswered <=> ~RuleMatch(cur)
    /\ AtExtraction
          => /\ ~is_spam(cur)
             /\ RuleMatch(cur) <=> "importance" \notin Range(ocalls)
             /\ RuleMatch(cur) => ClassifyResult(cur, "") = "important"
             /\ (pc = "extract_llm" /\ ~RuleMatch(cur))
                   => /\ ImportanceAnswered
                      /\ ClassifyResult(cur, ev.text) = "important"
    /\ (op \in TodoOps /\ HasCur /\ ImportanceAnswered
          /\ ClassifyResult(cur, ev.text) = "important")
          => pc = "extract_llm"

C30_Witness ==
    /\ op = "generate_todo" /\ pc = "extract_llm"
    /\ ~RuleMatch(cur) /\ ~is_spam(cur)
    /\ ImportanceAnswered /\ ev.text # "yes"
    /\ ClassifyResult(cur, ev.text) = "important"

====
